---- MODULE Spec2Model ----
(***************************************************************************)
(* Model of convert.py: the batch loop of main, detect_encoding, and the   *)
(* encoding-candidate loop of convert_ass_to_srt with its exception        *)
(* classification.  pysubs2.load / SubsFile.save and chardet.detect are    *)
(* external libraries: each call is a nondeterministic choice among the    *)
(* results it can produce (a return, or one of the exception classes the   *)
(* handler of convert_ass_to_srt distinguishes).  The print calls are      *)
(* taken to return: the model has no failure of standard output.           *)
(* Spec is the batch; SpecEncode is the load/save pipeline of lines 71-74   *)
(* on the content of one document (its events and their timestamps).       *)
(***************************************************************************)
EXTENDS Integers, Sequences, FiniteSets, TLC

\* ------------------------------------------------------------------ bounds

\* Largest number of .ass files that input_dir.glob("*.ass") selects.
MaxFiles == 2

\* Largest number of dialogue events of the document that is loaded and saved.
MaxEvents == 2

\* ------------------------------------------------------- program constants

\* Python's None, as returned by detect_encoding.
None == "None"

\* encodings_to_try as initialised on line 61.
FallbackList ==
    <<"utf-8", "utf-16", "utf-16-le", "utf-16-be", "gbk", "big5", "shift_jis", "cp1252">>

Range(s) == {s[i] : i \in 1..Len(s)}

\* ------------------------------------------------- the external libraries

\* Charset names chardet.detect may report in result['encoding']: the head of
\* the fallback list, a later entry of it, a name outside it that Python can
\* decode, and a name outside it for which Python has no codec.
DetectorNames == {"utf-8", "big5", "ascii", "EUC-TW"}

\* What the body of detect_encoding's try block can do: open/read/detect
\* raises, or chardet reports None, or chardet reports a charset name.
DetectorResults == {"raise", None} \cup DetectorNames

\* Encoding names open(..., encoding=name) accepts; any other name makes
\* pysubs2.load raise LookupError before a byte is decoded.
PythonCodecs == Range(FallbackList) \cup {"ascii"}

\* Exceptions pysubs2.load(path, encoding=...) can raise:
\*   UnicodeDecodeError  the bytes are not text under the encoding;
\*   CodecMessageError   an exception that is no UnicodeError but whose message
\*                       contains "codec can't decode" (a wrapped decode failure);
\*   FormatError         the bytes decoded as text, the text is no subtitle
\*                       document (a pysubs2 format error);
\*   LookupError         unknown encoding name.
LoadExceptions(encoding) ==
    IF encoding \in PythonCodecs
    THEN {"UnicodeDecodeError", "CodecMessageError", "FormatError"}
    ELSE {"LookupError"}

\* Exceptions subs.save(path) can raise: the text cannot be encoded for the
\* output, or the output file cannot be written.
SaveExceptions == {"UnicodeEncodeError", "OSError"}

\* One pass through the try body (lines 71-77): load returns or raises, and
\* save runs only when load returned.
Attempts(encoding) ==
    {[load |-> e, save |-> "not_reached"] : e \in LoadExceptions(encoding)}
    \cup (IF encoding \in PythonCodecs
          THEN {[load |-> "ok", save |-> s] : s \in {"ok"} \cup SaveExceptions}
          ELSE {})

NoAttempt == [load |-> "none", save |-> "none"]

\* The exception a pass through the try body ended with ("none": it returned).
Raised(a) ==
    IF a.load \notin {"ok", "none"} THEN a.load
    ELSE IF a.save \notin {"ok", "none", "not_reached"} THEN a.save
    ELSE "none"

\* isinstance(e, UnicodeError): UnicodeDecodeError and UnicodeEncodeError are
\* its subclasses (the except clause of line 79).
IsUnicodeError(e) == e \in {"UnicodeDecodeError", "UnicodeEncodeError"}

\* str(e), as a sequence of words.  The message of CodecMessageError names the
\* decode failure with other capitals than Python's own UnicodeDecodeError.
Message(e) ==
    CASE e = "UnicodeDecodeError" -> <<"'utf-8'", "codec", "can't", "decode", "byte">>
      [] e = "UnicodeEncodeError" -> <<"'utf-8'", "codec", "can't", "encode", "character">>
      [] e = "CodecMessageError"  -> <<"Load", "failed:", "'gbk'", "Codec", "Can't", "Decode", "byte">>
      [] e = "FormatError"        -> <<"No", "suitable", "formats">>
      [] e = "LookupError"        -> <<"unknown", "encoding:", "EUC-TW">>
      [] e = "OSError"            -> <<"Permission", "denied:", "output">>
      [] OTHER                    -> <<>>

\* str.lower(), word by word.
LowerWord(w) ==
    CASE w = "Codec" -> "codec"
      [] w = "Can't" -> "can't"
      [] w = "Decode" -> "decode"
      [] w = "Load" -> "load"
      [] w = "No" -> "no"
      [] w = "Permission" -> "permission"
      [] w = "EUC-TW" -> "euc-tw"
      [] OTHER -> w
Lower(msg) == [i \in 1..Len(msg) |-> LowerWord(msg[i])]

\* phrase in msg
Contains(msg, phrase) ==
    \E k \in 0..(Len(msg) - Len(phrase)) :
        \A i \in 1..Len(phrase) : msg[k + i] = phrase[i]

CodecCantDecode == <<"codec", "can't", "decode">>

\* "codec can't decode" in str(e).lower()   (line 84)
\* (mutant: the message is searched without lower())
MessageHasCodecCantDecode_case_sensitive(e) == Contains(Message(e), CodecCantDecode)
MessageHasCodecCantDecode(e) == Contains(Lower(Message(e)), CodecCantDecode)

\* The bytes were decoded as text under the candidate of attempt a.
DecodedAsText(a) == a.load \in {"ok", "FormatError"}

\* ------------------------------------------------------------ pure helpers

\* detect_encoding (lines 43-49): the except clause turns every exception into
\* None; otherwise result['encoding'] is returned as it is.
\* (mutant: a failed detection yields a default guess instead of None)
detect_encoding_default_guess(r) == IF r \in {"raise", None} THEN "utf-8" ELSE r
detect_encoding(r) == IF r = "raise" THEN None ELSE r

\* list.insert(0, x)
Insert0(list, x) == <<x>> \o list

\* Python truthiness of detect_encoding's return value (line 65).
Truthy(x) == x # None

VARIABLES
    ass_files,          \* main: the selected files, in glob order
    file_index,         \* main: position of the for loop of line 117 (1-based)
    converted_count,    \* main
    failed_count,       \* main
    converted_calls,    \* history: the files convert_ass_to_srt was called with
    srt_files,          \* the output path of each file: "unchanged", "partial"
                        \* (opened for writing, the save did not complete), "written"
    prev_detected,      \* history: detected_encoding of the previous call
    pc,                 \* "main", "loop" (line 68), "returned" (line 122), "done",
                        \* "raised" (an exception left convert_ass_to_srt)
    detector,           \* what chardet did for the file being converted
    detected_encoding,  \* convert_ass_to_srt: local of line 64
    encodings_to_try,   \* convert_ass_to_srt: local of line 61
    pos,                \* number of entries of encodings_to_try the loop consumed
    tried,              \* history: the encodings passed to pysubs2.load, in order
    first_attempt,      \* history: what the first pass through the try body did
    last_attempt,       \* history: what the latest pass through the try body did
    decoded_before,     \* history: a pass before the latest one loaded the file
    result,             \* convert_ass_to_srt's return value ("none" until it returns)
    report,             \* the line printed: "converted", "error" or "exhausted"
    used_encoding,      \* the encoding named by the line printed on success
    enc_pc,             \* the load/save pipeline of lines 71-74 on one document:
                        \* "off", "read" (before line 71), "loaded", "saved"
    ass_lines,          \* the start timestamps of the Dialogue lines, in source order
    events,             \* subs: the events of the loaded document
    srt_blocks          \* the blocks of the .srt file written by line 74

enc_vars == <<enc_pc, ass_lines, events, srt_blocks>>

vars == <<ass_files, file_index, converted_count, failed_count, converted_calls,
          prev_detected, pc, detector, detected_encoding, encodings_to_try, pos,
          tried, first_attempt, last_attempt, decoded_before, result, report,
          used_encoding, srt_files, enc_vars>>

main_vars == <<ass_files, file_index, converted_count, failed_count,
               converted_calls, prev_detected>>

\* No call of convert_ass_to_srt is active.
NoFrame ==
    /\ detector = None
    /\ detected_encoding = None
    /\ encodings_to_try = <<>>
    /\ pos = 0
    /\ tried = <<>>
    /\ first_attempt = NoAttempt
    /\ last_attempt = NoAttempt
    /\ decoded_before = FALSE
    /\ result = "none"
    /\ report = "none"
    /\ used_encoding = None

\* convert_ass_to_srt returned: its locals are gone.
PopFrame ==
    /\ detector' = None
    /\ detected_encoding' = None
    /\ encodings_to_try' = <<>>
    /\ pos' = 0
    /\ tried' = <<>>
    /\ first_attempt' = NoAttempt
    /\ last_attempt' = NoAttempt
    /\ decoded_before' = FALSE
    /\ result' = "none"
    /\ report' = "none"
    /\ used_encoding' = None

\* main up to line 115: the glob selected 0..MaxFiles files.
Init ==
    /\ ass_files \in {[i \in 1..n |-> i] : n \in 0..MaxFiles}
    /\ file_index = 1
    /\ converted_count = 0
    /\ failed_count = 0
    /\ converted_calls = <<>>
    /\ srt_files = [i \in 1..Len(ass_files) |-> "unchanged"]
    /\ prev_detected = None
    /\ pc = "main"
    /\ NoFrame
    /\ enc_pc = "off"
    /\ ass_lines = <<>>
    /\ events = <<>>
    /\ srt_blocks = <<>>

\* Lines 60-66: the candidate list of one call.
\* (mutants: the guess is appended instead of inserted at 0; the list is one
\* shared list that keeps the guess inserted by the previous call)
BuildCandidates_append(detected) ==
    IF Truthy(detected) THEN Append(FallbackList, detected) ELSE FallbackList
BuildCandidates_shared(detected) ==
    LET kept == IF Truthy(prev_detected)
                THEN Insert0(FallbackList, prev_detected) ELSE FallbackList
    IN  IF Truthy(detected) THEN Insert0(kept, detected) ELSE kept
BuildCandidates(detected) ==
    IF Truthy(detected) THEN Insert0(FallbackList, detected) ELSE FallbackList

\* Lines 79-89: what the except clauses do with exception e.
\* (mutants: every exception goes on to the next candidate; only the exception
\* type is looked at; only the message is looked at; the except Exception
\* clause is missing, so that other exceptions leave the function)
ExceptionHandler_only_unicode_caught(e) ==
    IF IsUnicodeError(e) THEN "continue" ELSE "propagate"
ExceptionHandler_always_continue(e) == "continue"
ExceptionHandler_type_only(e) ==
    IF IsUnicodeError(e) THEN "continue" ELSE "return_false"
ExceptionHandler_stop_on_unicode(e) ==
    IF MessageHasCodecCantDecode(e) THEN "continue" ELSE "return_false"
ExceptionHandler(e) ==
    IF IsUnicodeError(e) THEN "continue"
    ELSE IF MessageHasCodecCantDecode(e) THEN "continue"
    ELSE "return_false"

\* main, lines 117-122, and convert_ass_to_srt, lines 61-66: the for loop of
\* main takes the next file and calls convert_ass_to_srt, which detects the
\* encoding and builds its candidate list.
CallConvert ==
    /\ pc = "main"
    /\ file_index <= Len(ass_files)
    /\ \E r \in DetectorResults :
          /\ detector' = r
          /\ detected_encoding' = detect_encoding(r)
          /\ encodings_to_try' = BuildCandidates(detect_encoding(r))
    /\ converted_calls' = Append(converted_calls, ass_files[file_index])
    /\ pos' = 0
    /\ tried' = <<>>
    /\ first_attempt' = NoAttempt
    /\ last_attempt' = NoAttempt
    /\ decoded_before' = FALSE
    /\ result' = "none"
    /\ report' = "none"
    /\ used_encoding' = None
    /\ pc' = "loop"
    /\ UNCHANGED <<ass_files, file_index, converted_count, failed_count, prev_detected>>
    /\ UNCHANGED <<srt_files, enc_vars>>

\* What a pass through the try body does to the output path, whose state was
\* old: nothing when the load raised (line 74 is not reached); the file is
\* written when the save returned; when the save raised, it did so before or
\* after it opened the output for writing.
\* (mutant: the output is opened for writing before the file is loaded)
SaveEffect_output_opened_first(a, old) ==
    IF a.save = "ok" THEN {"written"} ELSE {"partial"}
SaveEffect(a, old) ==
    IF a.load # "ok" THEN {old}
    ELSE IF a.save = "ok" THEN {"written"}
    ELSE {old, "partial"}

\* The same file under the same encoding loads and saves the same way: a
\* candidate equal to the first one repeats what the first pass did.
AttemptsOf(encoding) ==
    IF pos > 0 /\ encoding = encodings_to_try[1]
    THEN {first_attempt}
    ELSE Attempts(encoding)

\* One iteration of the for loop of line 68: lines 69-89.
TryEncoding ==
    /\ pc = "loop"
    /\ pos < Len(encodings_to_try)
    /\ LET encoding == encodings_to_try[pos + 1] IN
       \E a \in AttemptsOf(encoding) :
          /\ pos' = pos + 1
          /\ tried' = Append(tried, encoding)
          /\ first_attempt' = IF pos = 0 THEN a ELSE first_attempt
          /\ last_attempt' = a
          /\ decoded_before' = (decoded_before \/ last_attempt.load = "ok")
          /\ \E st \in SaveEffect(a, srt_files[ass_files[file_index]]) :
                srt_files' = [srt_files EXCEPT ![ass_files[file_index]] = st]
          /\ IF Raised(a) = "none"
             THEN \* lines 76-77
                  /\ result' = "True"
                  /\ report' = "converted"
                  /\ used_encoding' = encoding
                  /\ pc' = "returned"
             ELSE IF ExceptionHandler(Raised(a)) = "continue"
             THEN \* lines 81, 85
                  /\ pc' = "loop"
                  /\ UNCHANGED <<result, report, used_encoding>>
             ELSE IF ExceptionHandler(Raised(a)) = "return_false"
             THEN \* lines 88-89
                  /\ result' = "False"
                  /\ report' = "error"
                  /\ pc' = "returned"
                  /\ UNCHANGED used_encoding
             ELSE \* no except clause took the exception
                  /\ pc' = "raised"
                  /\ UNCHANGED <<result, report, used_encoding>>
    /\ UNCHANGED <<main_vars, detector, detected_encoding, encodings_to_try>>
    /\ UNCHANGED enc_vars

\* Lines 91-93: the for loop ran out of candidates.
\* (mutant: the loop gives up with one candidate left)
Exhausted_early ==
    /\ pc = "loop"
    /\ pos >= Len(encodings_to_try) - 1
    /\ result' = "False"
    /\ report' = "exhausted"
    /\ pc' = "returned"
    /\ UNCHANGED <<main_vars, detector, detected_encoding, encodings_to_try, pos,
                   tried, first_attempt, last_attempt, decoded_before, used_encoding>>
    /\ UNCHANGED <<srt_files, enc_vars>>
Exhausted ==
    /\ pc = "loop"
    /\ pos = Len(encodings_to_try)
    /\ result' = "False"
    /\ report' = "exhausted"
    /\ pc' = "returned"
    /\ UNCHANGED <<main_vars, detector, detected_encoding, encodings_to_try, pos,
                   tried, first_attempt, last_attempt, decoded_before, used_encoding>>
    /\ UNCHANGED <<srt_files, enc_vars>>

\* main, lines 122-125: count the outcome and go on with the next file.
\* (mutant: a failed file ends the loop)
Count_abort ==
    /\ pc = "returned"
    /\ converted_count' = IF result = "True" THEN converted_count + 1 ELSE converted_count
    /\ failed_count' = IF result = "True" THEN failed_count ELSE failed_count + 1
    /\ file_index' = IF result = "True" THEN file_index + 1 ELSE Len(ass_files) + 1
    /\ prev_detected' = detected_encoding
    /\ pc' = "main"
    /\ PopFrame
    /\ UNCHANGED <<ass_files, converted_calls>>
    /\ UNCHANGED <<srt_files, enc_vars>>
Count ==
    /\ pc = "returned"
    /\ converted_count' = IF result = "True" THEN converted_count + 1 ELSE converted_count
    /\ failed_count' = IF result = "True" THEN failed_count ELSE failed_count + 1
    /\ file_index' = file_index + 1
    /\ prev_detected' = detected_encoding
    /\ pc' = "main"
    /\ PopFrame
    /\ UNCHANGED <<ass_files, converted_calls>>
    /\ UNCHANGED <<srt_files, enc_vars>>

\* main, lines 107-110: no file was selected.
NoFiles ==
    /\ pc = "main"
    /\ ass_files = <<>>
    /\ pc' = "done"
    /\ UNCHANGED <<main_vars, detector, detected_encoding, encodings_to_try, pos,
                   tried, first_attempt, last_attempt, decoded_before, result,
                   report, used_encoding>>
    /\ UNCHANGED <<srt_files, enc_vars>>

\* main, lines 127-132: the loop is over, the summary is printed.
Summary ==
    /\ pc = "main"
    /\ ass_files # <<>>
    /\ file_index > Len(ass_files)
    /\ pc' = "done"
    /\ UNCHANGED <<main_vars, detector, detected_encoding, encodings_to_try, pos,
                   tried, first_attempt, last_attempt, decoded_before, result,
                   report, used_encoding>>
    /\ UNCHANGED <<srt_files, enc_vars>>

Next ==
    \/ CallConvert
    \/ TryEncoding
    \/ Exhausted
    \/ Count
    \/ NoFiles
    \/ Summary

Spec == Init /\ [][Next]_vars

\* The program is one sequential thread and no call of it waits for anything:
\* a step that can be taken is taken.
FairSpec == Spec /\ WF_vars(Next)

\* ------------------------------------------- the document that is converted
\* Lines 71-74 on the content of one file that loads and saves: pysubs2.load
\* parses the Dialogue lines into events, subs.save writes one SRT block per
\* event.  convert_ass_to_srt does nothing between the two calls.

\* Sample fields of ASS timestamps H:MM:SS.cc.
HourSamples == {0, 9}
MinuteSamples == {0, 59}
SecondSamples == {0, 59}
CentisecondSamples == {0, 1, 50, 99}

AssTimestamps ==
    [h : HourSamples, m : MinuteSamples, s : SecondSamples, cc : CentisecondSamples]

\* The decoder's timestamp parse: H:MM:SS.cc to milliseconds.
\* (mutant: the fraction is taken as milliseconds)
ParseAssTimestamp_fraction_as_ms(t) == ((t.h * 60 + t.m) * 60 + t.s) * 1000 + t.cc
ParseAssTimestamp(t) == ((t.h * 60 + t.m) * 60 + t.s) * 1000 + t.cc * 10

\* The encoder's timestamp format: milliseconds to the fields of HH:MM:SS,mmm.
FormatSrtTimestamp(ms) ==
    [h  |-> ms \div 3600000,
     m  |-> (ms \div 60000) % 60,
     s  |-> (ms \div 1000) % 60,
     ms |-> ms % 1000]

\* The millisecond value an SRT timestamp denotes.
SrtTimestampValue(t) == ((t.h * 60 + t.m) * 60 + t.s) * 1000 + t.ms

\* pysubs2.load (line 71): one event per Dialogue line, in source order; line
\* is the position of the Dialogue line in the source.
LoadEvents(lines) ==
    [i \in 1..Len(lines) |-> [line |-> i, start |-> ParseAssTimestamp(lines[i])]]

\* subs.save (line 74): one block per event of subs, in the order of subs,
\* numbered from 1.  subs is saved as it was loaded: convert_ass_to_srt makes
\* no call that orders it.
SaveBlocks(evs) ==
    [i \in 1..Len(evs) |->
        [index |-> i, line |-> evs[i].line, time |-> FormatSrtTimestamp(evs[i].start)]]

\* A file with 0..MaxEvents Dialogue lines is about to be loaded.
InitEncode ==
    /\ ass_files = <<1>>
    /\ file_index = 1
    /\ converted_count = 0
    /\ failed_count = 0
    /\ converted_calls = <<>>
    /\ srt_files = [i \in 1..Len(ass_files) |-> "unchanged"]
    /\ prev_detected = None
    /\ pc = "main"
    /\ NoFrame
    /\ enc_pc = "read"
    /\ ass_lines \in UNION {[1..n -> AssTimestamps] : n \in 0..MaxEvents}
    /\ events = <<>>
    /\ srt_blocks = <<>>

batch_vars == <<ass_files, file_index, converted_count, failed_count, converted_calls,
                prev_detected, pc, detector, detected_encoding, encodings_to_try, pos,
                tried, first_attempt, last_attempt, decoded_before, result, report,
                used_encoding, srt_files>>

\* Line 71.
LoadDocument ==
    /\ enc_pc = "read"
    /\ events' = LoadEvents(ass_lines)
    /\ enc_pc' = "loaded"
    /\ UNCHANGED <<batch_vars, ass_lines, srt_blocks>>

\* Line 74.
SaveDocument ==
    /\ enc_pc = "loaded"
    /\ srt_blocks' = SaveBlocks(events)
    /\ enc_pc' = "saved"
    /\ UNCHANGED <<batch_vars, ass_lines, events>>

NextEncode ==
    \/ LoadDocument
    \/ SaveDocument

SpecEncode == InitEncode /\ [][NextEncode]_vars

\* ------------------------------------------------------------------ claims

\* A call of convert_ass_to_srt is active or has just returned.
InCall == pc \in {"loop", "returned"}

\* The attempt ended with an exception of the kind the code treats as "this
\* encoding didn't work": a UnicodeError, or a message with "codec can't decode".
DecodeFailure(a) ==
    IsUnicodeError(Raised(a)) \/ MessageHasCodecCantDecode(Raised(a))

\* The attempt decoded the bytes as text and then failed on the document's
\* structure.
StructuralFailure(a) == a.load = "FormatError"

IsPrefix(s, t) == Len(s) <= Len(t) /\ \A i \in 1..Len(s) : s[i] = t[i]

\* C1: when the candidate being tried decodes the bytes as text but the load
\* fails with a structural error, the call returns False with an error report
\* at that candidate and the loop is not at its head again; when this is the
\* first candidate, exactly one candidate was consumed.
C1_StructuralFailureStops ==
    StructuralFailure(last_attempt) =>
        /\ pc = "returned"
        /\ result = "False"
        /\ report = "error"
        /\ Len(tried) = pos
        /\ tried[pos] = encodings_to_try[pos]
        /\ (StructuralFailure(first_attempt) => pos = 1 /\ Len(tried) = 1)

\* C1 witness: the first of nine candidates failed structurally and the call
\* returned with one candidate consumed.
C1_Witness ==
    /\ pc = "returned"
    /\ StructuralFailure(last_attempt)
    /\ Len(tried) = 1
    /\ Len(encodings_to_try) = Len(FallbackList) + 1
    /\ result = "False"

C3_EarlyFailureOnlyAfterTextDecode ==
    /\ (report = "error") => DecodedAsText(last_attempt)
    /\ (InCall /\ pos > 0 /\ last_attempt.load # "ok"
           /\ ~StructuralFailure(last_attempt)) =>
          \/ pc = "loop" /\ report = "none"
          \/ report = "exhausted"

\* C4: the exhaustion failure is the outcome when every candidate of the list
\* produced a decode failure, and it is reported only after the encodings
\* tried are the whole list, entry by entry.
C4_ExhaustedAfterWholeList ==
    /\ (report = "exhausted") =>
          /\ result = "False"
          /\ pc = "returned"
          /\ tried = encodings_to_try
          /\ DecodeFailure(last_attempt)
          /\ DecodeFailure(first_attempt)
    /\ (pc = "returned" /\ tried = encodings_to_try /\ DecodeFailure(last_attempt)) =>
          (report = "exhausted" /\ result = "False")

\* C4 witness: all nine candidates of a list with a detector guess failed to
\* decode and the call returned the exhaustion failure.
C4_Witness ==
    /\ report = "exhausted"
    /\ Len(tried) = Len(FallbackList) + 1
    /\ result = "False"

\* C5 (as claimed): the candidate list holds no encoding twice, and no
\* encoding is attempted twice for the same file.
C5_NoDuplicateCandidates ==
    /\ \A i, j \in 1..Len(encodings_to_try) :
          i # j => encodings_to_try[i] # encodings_to_try[j]
    /\ \A i, j \in 1..Len(tried) : i # j => tried[i] # tried[j]

\* C6: the candidate list of a call is the detector's guess, when there is
\* one, at position 0, followed by the eight fallback encodings in their fixed
\* order; without a guess it is the fallback list.
C6_GuessThenFallbackOrder ==
    InCall =>
        /\ detected_encoding = (IF detector = "raise" THEN None ELSE detector)
        /\ IF Truthy(detected_encoding)
           THEN /\ Len(encodings_to_try) = Len(FallbackList) + 1
                /\ encodings_to_try[1] = detected_encoding
                /\ \A i \in 1..Len(FallbackList) :
                      encodings_to_try[i + 1] = FallbackList[i]
           ELSE encodings_to_try = FallbackList
        /\ FallbackList[1] = "utf-8" /\ FallbackList[2] = "utf-16"
        /\ FallbackList[3] = "utf-16-le" /\ FallbackList[4] = "utf-16-be"
        /\ FallbackList[5] = "gbk" /\ FallbackList[6] = "big5"
        /\ FallbackList[7] = "shift_jis" /\ FallbackList[8] = "cp1252"

\* C6 witness: the detector guessed an encoding of the fallback list; it is at
\* position 0 and the fallback entries follow unchanged.
C6_Witness ==
    /\ pc = "loop"
    /\ detected_encoding = "big5"
    /\ encodings_to_try[1] = "big5"
    /\ encodings_to_try[7] = "big5"
    /\ encodings_to_try[2] = "utf-8"

\* C7: when the detector raises or reports no encoding, detect_encoding yields
\* None, the candidate list is exactly the fallback list, and the call does
\* not return before its first candidate, utf-8, was tried.
C7_DetectorFailureFallsBack ==
    (InCall /\ detector \in {"raise", None}) =>
        /\ detected_encoding = None
        /\ encodings_to_try = FallbackList
        /\ (pos = 0 => pc = "loop" /\ result = "none" /\ report = "none")
        /\ (pos > 0 => tried[1] = FallbackList[1])

\* C7 witness: the detector raised, and the file was converted under a
\* fallback candidate.
C7_Witness ==
    /\ pc = "returned"
    /\ detector = "raise"
    /\ result = "True"
    /\ used_encoding \in Range(FallbackList)

\* The legacy code pages of the fallback list.
LegacyCodePages == {"gbk", "big5", "shift_jis", "cp1252"}

\* What the call has seen of the file agrees with bytes that load under cp and
\* fail to decode under every other candidate.
LoadsOnlyUnder(cp) ==
    /\ ~decoded_before
    /\ \A i \in 1..(Len(tried) - 1) : tried[i] # cp
    /\ Len(tried) > 0 =>
          IF tried[Len(tried)] = cp
          THEN last_attempt.load = "ok"
          ELSE last_attempt.load \in {"UnicodeDecodeError", "CodecMessageError"}

\* C8: for a file without a detector guess whose bytes load under exactly one
\* legacy code page of the fallback list, the candidate list contains that
\* code page, the call returns only after loading the file under it, and when
\* the save completes the call returns True and reports that code page.
C8_LegacyCodePageFallback ==
    \A cp \in LegacyCodePages :
        (pc = "returned" /\ detector \in {"raise", None} /\ LoadsOnlyUnder(cp)) =>
            /\ cp \in Range(encodings_to_try)
            /\ Len(tried) > 0
            /\ tried[Len(tried)] = cp
            /\ last_attempt.load = "ok"
            /\ (last_attempt.save = "ok" => result = "True" /\ used_encoding = cp)

\* C8 witness: no detector guess, every candidate before big5 failed to
\* decode, and the file was converted under big5.
C8_Witness ==
    /\ pc = "returned"
    /\ detector = None
    /\ LoadsOnlyUnder("big5")
    /\ result = "True"
    /\ used_encoding = "big5"
    /\ Len(tried) = 6

\* C9: main calls convert_ass_to_srt for the selected files in order, once
\* each, whatever the earlier outcomes; every completed call added one to
\* exactly one of the two counters; at the end the counters sum to the number
\* of selected files.
C9_BatchNeverAborted ==
    /\ converted_calls =
          SubSeq(ass_files, 1, IF InCall THEN file_index ELSE file_index - 1)
    /\ converted_count + failed_count = (file_index - 1)
    /\ file_index <= Len(ass_files) + 1
    /\ (pc = "done") =>
          /\ converted_calls = ass_files
          /\ converted_count + failed_count = Len(ass_files)

\* C9 witness: a batch of at least two files ended with a failed file and a
\* converted file.
C9_Witness ==
    /\ pc = "done"
    /\ Len(ass_files) >= 2
    /\ failed_count >= 1
    /\ converted_count >= 1

\* C10: the candidate list of a call is made of the fallback encodings and
\* this file's own guess only (the guess of the previous file is in it only if
\* it is a fallback encoding or this file's guess too), and the outcome of the
\* call is decided by this file's attempts alone, whatever the counters are.
C10_FilesIndependent ==
    InCall =>
        /\ \A i \in 1..Len(encodings_to_try) :
              \/ encodings_to_try[i] \in Range(FallbackList)
              \/ encodings_to_try[i] = detected_encoding /\ i = 1
        /\ Len(encodings_to_try) <= Len(FallbackList) + 1
        /\ (prev_detected \notin Range(FallbackList) \cup {detected_encoding}) =>
              prev_detected \notin Range(encodings_to_try)
        /\ (pc = "returned") =>
              /\ (result = "True") = (Raised(last_attempt) = "none" /\ pos > 0)
              /\ (report = "exhausted") =
                    (DecodeFailure(last_attempt) /\ pos = Len(encodings_to_try))

\* C10 witness: the second file of a batch is being converted, the first
\* file's guess was a name outside the fallback list, and this file's list
\* does not hold it.
C10_Witness ==
    /\ pc = "loop"
    /\ file_index = 2
    /\ prev_detected = "EUC-TW"
    /\ detected_encoding = "ascii"
    /\ encodings_to_try = <<"ascii">> \o FallbackList

\* C11 (as claimed): the SRT output lists the events ordered by start time
\* ascending, events with equal start in source order, and the blocks carry
\* the numbers 1..N in that order.
C11_BlocksSortedByStart ==
    (enc_pc = "saved") =>
        /\ Len(srt_blocks) = Len(ass_lines)
        /\ \A i \in 1..Len(srt_blocks) : srt_blocks[i].index = i
        /\ \A i, j \in 1..Len(srt_blocks) :
              i < j =>
                 \/ SrtTimestampValue(srt_blocks[i].time) < SrtTimestampValue(srt_blocks[j].time)
                 \/ /\ SrtTimestampValue(srt_blocks[i].time) = SrtTimestampValue(srt_blocks[j].time)
                    /\ srt_blocks[i].line < srt_blocks[j].line

\* C12: for every ASS timestamp H:MM:SS.cc of the source, the SRT timestamp of
\* its block has the same hours, minutes and seconds and the millisecond field
\* cc * 10, so that it denotes the same number of milliseconds.
C12_TimestampFidelity ==
    (enc_pc = "saved") =>
        \A i \in 1..Len(srt_blocks) :
            LET t == ass_lines[srt_blocks[i].line]
                u == srt_blocks[i].time
            IN  /\ u.h = t.h
                /\ u.m = t.m
                /\ u.s = t.s
                /\ u.ms = t.cc * 10
                /\ SrtTimestampValue(u) = ((t.h * 60 + t.m) * 60 + t.s) * 1000 + t.cc * 10

\* C12 witness: a document with the timestamp 9:59:59.99 was saved with the
\* millisecond field 990.
C12_Witness ==
    /\ enc_pc = "saved"
    /\ Len(srt_blocks) >= 1
    /\ ass_lines[1] = [h |-> 9, m |-> 59, s |-> 59, cc |-> 99]
    /\ srt_blocks[1].time = [h |-> 9, m |-> 59, s |-> 59, ms |-> 990]

\* C13: a call of convert_ass_to_srt makes at most 9 load attempts (the 8
\* fallbacks and at most one guess), no exception of the load/save step leaves
\* it, and every call returns, with True or False.
C13_TerminatesWithBoolean ==
    /\ [](/\ pc # "raised"
          /\ Len(tried) <= 9
          /\ pos <= Len(encodings_to_try)
          /\ Len(encodings_to_try) <= Len(FallbackList) + 1
          /\ (pc = "returned" => result \in {"True", "False"})
          /\ (pc = "loop" => result = "none"))
    /\ ((pc = "loop") ~> (pc = "returned"))

\* C13 witness: a call returned after nine load attempts.
C13_Witness ==
    /\ pc = "returned"
    /\ Len(tried) = 9
    /\ result \in {"True", "False"}
    /\ Raised(last_attempt) # "none"

\* C14: the output path of a file is touched only by a pass whose load
\* succeeded: the outputs of files not yet converted are unchanged, the output
\* of the file being converted is unchanged as long as every load attempt
\* failed, True is returned only after a save that completed, and the outputs
\* written are those of the files that returned True.
C14_OutputOnlyAfterLoad ==
    /\ \A f \in 1..Len(ass_files) :
          (\A i \in 1..Len(converted_calls) : converted_calls[i] # f) =>
             srt_files[f] = "unchanged"
    /\ InCall =>
          LET f == ass_files[file_index] IN
          /\ (~decoded_before /\ last_attempt.load # "ok") => srt_files[f] = "unchanged"
          /\ (result = "True") =>
                (last_attempt.load = "ok" /\ last_attempt.save = "ok"
                 /\ srt_files[f] = "written")
          /\ (srt_files[f] = "written") => result = "True"
    /\ Cardinality({f \in 1..Len(ass_files) : srt_files[f] = "written"})
          = converted_count + (IF result = "True" THEN 1 ELSE 0)

\* C14 witness: the first file of a batch was written, and every load attempt
\* for the second file failed, one of them structurally: its output is
\* unchanged and False was returned.
C14_Witness ==
    /\ pc = "returned"
    /\ file_index = 2
    /\ srt_files = <<"written", "unchanged">>
    /\ Len(tried) = 3
    /\ StructuralFailure(last_attempt)
    /\ result = "False"

\* The exception is a UnicodeError, or its message, in lower case, contains
\* "codec can't decode".
ClassedAsEncodingFailure(e) ==
    \/ e \in {"UnicodeDecodeError", "UnicodeEncodeError"}
    \/ \E k \in 1..Len(Message(e)) :
          /\ k + 2 <= Len(Message(e))
          /\ LowerWord(Message(e)[k]) = "codec"
          /\ LowerWord(Message(e)[k + 1]) = "can't"
          /\ LowerWord(Message(e)[k + 2]) = "decode"

\* C15: an exception of load or save that is a UnicodeError, or whose message
\* contains "codec can't decode" in any case, makes the loop go on to the next
\* candidate (to the exhaustion failure after the last one); every other
\* exception of load or save ends the call at that candidate with False and an
\* error report.
C15_ClassificationByTypeOrMessage ==
    (InCall /\ pos > 0 /\ Raised(last_attempt) # "none") =>
        IF ClassedAsEncodingFailure(Raised(last_attempt))
        THEN /\ report # "error"
             /\ \/ pc = "loop" /\ result = "none"
                \/ pc = "returned" /\ report = "exhausted" /\ pos = Len(encodings_to_try)
        ELSE /\ pc = "returned"
             /\ result = "False"
             /\ report = "error"
             /\ Len(tried) = pos
             /\ Raised(last_attempt) \in {"FormatError", "LookupError", "OSError"}

\* C15 witness: a load raised an exception that is no UnicodeError and whose
\* message has the phrase in capitals, and the loop went on; the next candidate
\* loaded, its save raised OSError, and the call ended there with False.
C15_Witness ==
    /\ pc = "returned"
    /\ first_attempt.load = "CodecMessageError"
    /\ Len(tried) = 2
    /\ last_attempt = [load |-> "ok", save |-> "OSError"]
    /\ result = "False"
    /\ report = "error"

====
